---- MODULE Spec2Model ----
(***************************************************************************)
(* Day 12 "Hot Springs" (src/src/bin/twelfth.rs): the Report / Pattern /   *)
(* Combination types, Report::combinations, Report::solve and the driver   *)
(* main, as a state machine.                                               *)
(*                                                                         *)
(* Bit::I is a Block cell ('#'), Bit::O a Gap cell ('.'), Bit::X an        *)
(* Unknown cell ('?').  An Option<T> is modelled as a sequence: None is    *)
(* << >> and Some(x) is << x >>.                                           *)
(***************************************************************************)
EXTENDS Integers, Sequences, FiniteSets, TLC

VARIABLES
    input,        \* the parsed lines: a sequence of [pattern, groups]
    part,         \* Options::part
    springs,      \* Springs(Vec<Report>)
    pc,           \* position of the driver / of the test
    idx,          \* index of the report the current loop is at
    solution,     \* the running sum of combinations().count()
    combinations, \* the HashSet<Combination> a test collects
    call,         \* the call of the arrangement counter that is being evaluated
    almanac,      \* day 5: the seed ranges on their way through the Almanac
    tortoise,     \* lib.rs: the state of cycle(), Floyd's tortoise and hare
    platform,     \* day 14: the Platform
    contraption,  \* day 16: the Contraption
    hashmap       \* day 15: the HashMap of boxes

\* the variables of day 12
twelfth == <<input, part, springs, pc, idx, solution, combinations>>

\* the variables of the other programs
others == <<call, almanac, tortoise, platform, contraption, hashmap>>

vars == <<twelfth, others>>

\* a program that is not running
Idle == [pc |-> "idle"]

OthersIdle ==
    /\ call = Idle
    /\ almanac = Idle
    /\ tortoise = Idle
    /\ platform = Idle
    /\ contraption = Idle
    /\ hashmap = Idle

TwelfthIdle ==
    /\ input = << >>
    /\ part = "One"
    /\ springs = << >>
    /\ pc = "idle"
    /\ idx = 0
    /\ solution = 0
    /\ combinations = {}

----------------------------------------------------------------------------
(* Bounds of the model *)

MaxLen == 4       \* longest pattern handed to Report::new by a test
MaxClues == 2     \* longest clue list
MaxClueLen == 3   \* largest clue length
MaxReports == 2   \* most lines of the input file read by main

----------------------------------------------------------------------------
(* Small helpers *)

None == << >>
Some(x) == << x >>
IsSome(o) == o # << >>

RECURSIVE SumSeq(_)
SumSeq(s) == IF s = << >> THEN 0 ELSE Head(s) + SumSeq(Tail(s))

RECURSIVE SumSet(_)
SumSet(S) == IF S = {} THEN 0 ELSE LET x == CHOOSE y \in S : TRUE IN x + SumSet(S \ {x})

RECURSIVE Flatten(_)
Flatten(ss) == IF ss = << >> THEN << >> ELSE Head(ss) \o Flatten(Tail(ss))

Min(a, b) == IF a < b THEN a ELSE b

\* itertools::repeat_n(x, n)
repeat_n(x, n) == [i \in 1..n |-> x]

\* Itertools::interleave: alternate between the two iterators; when one is
\* exhausted the other is drained.
RECURSIVE interleave(_, _)
interleave(a, b) ==
    IF a = << >> THEN b ELSE << Head(a) >> \o interleave(b, Tail(a))

\* Itertools::intersperse: the separator between every two adjacent elements.
RECURSIVE intersperse(_, _)
intersperse(s, sep) ==
    IF Len(s) <= 1 THEN s ELSE << Head(s), sep >> \o intersperse(Tail(s), sep)

----------------------------------------------------------------------------
(* enum Bit, struct Combination *)

Bit == {"I", "O", "X"}

\* Bit::matches
matches(a, b) == a = "X" \/ b = "X" \/ a = b

\* impl BitAnd for Bit
BitAnd(a, b) ==
    IF a = "I" /\ b = "I" THEN "I"
    ELSE IF a = "O" /\ b = "O" THEN "O"
    ELSE "X"

\* impl From<bool> for Bit
BitFrom(value) == IF value THEN "I" ELSE "O"

\* the shift amount of `1u32 << n`: the low five bits of n
ShiftMask == 32

\* impl FromIterator<Bit> for Combination: bit number len of the u32 is set
\* for every Bit::I (an X is stored like an O); `pattern |= 1 << len`.
CombinationFromIter(bits) ==
    [pattern |-> SumSet({2 ^ ((i - 1) % ShiftMask) :
                            i \in {j \in 1..Len(bits) : bits[j] = "I"}}),
     len |-> Len(bits)]

\* Combination::iter: `self.pattern & (1 << bit) > 0` for bit in 0..len
CombinationIter(c) ==
    [i \in 1..c.len |-> BitFrom((c.pattern \div (2 ^ ((i - 1) % ShiftMask))) % 2 = 1)]

\* impl BitAnd for Combination (Output = Pattern): zip of the two iterators
CombinationBitAnd(a, b) ==
    [i \in 1..Min(a.len, b.len) |-> BitAnd(CombinationIter(a)[i], CombinationIter(b)[i])]

\* `combi.iter().zip(pattern.iter()).all(|(a, b)| a.matches(b))`
MatchesPattern(c, pattern) ==
    \A i \in 1..Min(c.len, Len(pattern)) : matches(CombinationIter(c)[i], pattern[i])

----------------------------------------------------------------------------
(* struct Clue, struct Report *)

\* Clue::new
ClueNew(len) == [len |-> len, start |-> None, end |-> None]

\* Clue::solved
ClueSolved(clue) == IsSome(clue.start) /\ IsSome(clue.end)

\* `pattern.0.iter().take_while(|c| **c == Bit::O).count()`
RECURSIVE LeadingGaps(_)
LeadingGaps(p) ==
    IF p = << >> \/ Head(p) # "O" THEN 0 ELSE 1 + LeadingGaps(Tail(p))

\* Report::new without the Gap pushed behind the pattern
ReportNewFrontOnly(pattern, groups) ==
    LET padded == << "O" >> \o pattern IN
    [pattern |-> padded,
     clues |-> [j \in 1..Len(groups) |-> ClueNew(groups[j])],
     solved_until |-> LeadingGaps(padded)]

\* Report::new: a Gap is inserted in front of the pattern and pushed behind it
ReportNew(pattern, groups) ==
    LET padded == << "O" >> \o pattern \o << "O" >> IN
    [pattern |-> padded,
     clues |-> [j \in 1..Len(groups) |-> ClueNew(groups[j])],
     solved_until |-> LeadingGaps(padded)]

\* Report::pattern: skip(1).take(len - 2)
ReportPattern(report) ==
    [i \in 1..(Len(report.pattern) - 2) |-> report.pattern[i + 1]]

ClueLens(report) == [j \in 1..Len(report.clues) |-> report.clues[j].len]

----------------------------------------------------------------------------
(* Report::combinations *)

\* `n - sum as usize` on usize: a sum above n underflows.  A build with
\* overflow checks panics there; a build without them wraps k to about 2^64
\* and the cartesian product over 1..k does not come to an end.
CombinationsOverflows(report) == SumSeq(ClueLens(report)) > Len(report.pattern)

\* k
CombinationsK(report) == Len(report.pattern) - SumSeq(ClueLens(report))

\* GapWidths with the ranges written `0..k`: a gap may be empty, so two
\* runs may touch and a run may lie on a sentinel
GapWidthsFromZero(report) ==
    LET m == Len(report.clues) + 1
        k == CombinationsK(report)
    IN {g \in [1..m -> 0..(k - 1)] : SumSeq(g) = k}

\* `(0..m).map(|_| 1..k).multi_cartesian_product().filter(k == sum)`:
\* one gap width out of 1..k (k excluded) before, between and after the clues
GapWidths(report) ==
    LET m == Len(report.clues) + 1
        k == CombinationsK(report)
    IN {g \in [1..m -> 1..(k - 1)] : SumSeq(g) = k}

\* the gaps interleaved with the clues, every (bit, n) repeated n times,
\* collected into a Combination
Arrangement(report, g) ==
    LET gaps == [i \in 1..Len(g) |-> repeat_n("O", g[i])]
        runs == [j \in 1..Len(report.clues) |-> repeat_n("I", report.clues[j].len)]
    IN CombinationFromIter(Flatten(interleave(gaps, runs)))

\* the gap widths whose arrangement passes the last filter: one item of the
\* iterator each
CombinationItems(report) ==
    {g \in GapWidths(report) : MatchesPattern(Arrangement(report, g), report.pattern)}

\* combinations().count()
CombinationsCount(report) == Cardinality(CombinationItems(report))

\* combinations().collect::<HashSet<_>>()
CombinationsSet(report) == {Arrangement(report, g) : g \in CombinationItems(report)}

----------------------------------------------------------------------------
(* Report::solve and its two passes *)

\* the clue lengths as runs of I with a single O between two runs
ClueBody(report) ==
    Flatten(intersperse([j \in 1..Len(report.clues) |->
                            repeat_n("I", report.clues[j].len)], << "O" >>))

\* Report::solve_simple_boxes: the clues packed to the right (upper) and to
\* the left (lower), both collected into a Combination, and their
\* intersection.  Returns the report and the Option<()> of the function.
solve_simple_boxes(report) ==
    LET n == SumSeq(intersperse(ClueLens(report), 1))
        fill == IF Len(report.pattern) >= n + 2 THEN Len(report.pattern) - (n + 2) ELSE 0
        upper == CombinationFromIter(
                     repeat_n("X", fill) \o << "O" >> \o ClueBody(report) \o << "O" >>)
        lower == CombinationFromIter(
                     << "O" >> \o ClueBody(report) \o << "O" >> \o repeat_n("X", fill))
        intersection == CombinationBitAnd(lower, upper)
    IN IF (\A i \in 1..Len(intersection) : intersection[i] # "X")
          /\ report.pattern # intersection
       THEN [report |-> [report EXCEPT !.pattern = intersection], ret |-> Some(TRUE)]
       ELSE \* the loop only prints: the assignment `*bit = Bit::I` is commented out
            [report |-> report,
             ret |-> IF \E i \in 1..Min(Len(report.pattern), Len(intersection)) :
                           intersection[i] = "I" /\ report.pattern[i] # "I"
                     THEN Some(TRUE) ELSE None]

\* Report::update_clue_bounds, the for loop from index i (0-based) on with
\* clue number cur current.  The function returns None on every path.
RECURSIVE update_clue_bounds_from(_, _, _, _)
update_clue_bounds_from(pattern, clues, cur, i) ==
    LET done(p, c) == [pattern |-> p, clues |-> c, ret |-> None, panicked |-> FALSE]
        panic == [pattern |-> pattern, clues |-> clues, ret |-> None, panicked |-> TRUE]
        clue == clues[cur]
        len == clue.len
        bit == pattern[i + 1]
    IN IF i >= Len(pattern) THEN done(pattern, clues)
       ELSE IF IsSome(clue.start)
       THEN LET s == clue.start[1] IN
            IF i <= s THEN update_clue_bounds_from(pattern, clues, cur, i + 1)
            ELSE IF i <= s + len
            THEN IF bit = "I" THEN update_clue_bounds_from(pattern, clues, cur, i + 1)
                 ELSE IF bit = "X"
                 THEN update_clue_bounds_from(
                          [pattern EXCEPT ![i + 1] = "I"], clues, cur, i + 1)
                 ELSE panic
            ELSE IF i = s + len + 1
            THEN IF bit = "I" THEN panic
                 ELSE LET p2 == IF bit = "X" THEN [pattern EXCEPT ![i + 1] = "O"] ELSE pattern
                          c2 == IF clue.end = None
                                THEN [clues EXCEPT ![cur].end = Some(i)] ELSE clues
                      IN IF cur = Len(clues) THEN done(p2, c2)
                         ELSE update_clue_bounds_from(p2, c2, cur + 1, i + 1)
            ELSE update_clue_bounds_from(pattern, clues, cur, i + 1)
       ELSE IF bit = "X" THEN done(pattern, clues)
            ELSE IF bit = "I"
            THEN IF i = 0 THEN panic   \* `i - 1` on usize
                 ELSE update_clue_bounds_from(
                          pattern, [clues EXCEPT ![cur].start = Some(i - 1)], cur, i + 1)
            ELSE update_clue_bounds_from(pattern, clues, cur, i + 1)

\* Report::update_clue_bounds: `clues.next()?` first
update_clue_bounds(report) ==
    IF report.clues = << >>
    THEN [report |-> report, ret |-> None, panicked |-> FALSE]
    ELSE LET r == update_clue_bounds_from(report.pattern, report.clues, 1, 0) IN
         [report |-> [report EXCEPT !.pattern = r.pattern, !.clues = r.clues],
          ret |-> r.ret, panicked |-> r.panicked]

\* Report::solve_simple_spaces: `self.update_clue_bounds()?; None`
solve_simple_spaces(report) ==
    LET u == update_clue_bounds(report) IN
    [report |-> u.report, ret |-> None, panicked |-> u.panicked]

\* Option::and
OptionAnd(a, b) == IF IsSome(a) THEN b ELSE None

\* one evaluation of the condition of the while loop of Report::solve: the
\* receiver solve_simple_boxes() first, then the argument
\* solve_simple_spaces(), which is evaluated whatever the receiver returned
solve_condition(report) ==
    LET b == solve_simple_boxes(report)
        s == solve_simple_spaces(b.report)
    IN [report |-> s.report, again |-> IsSome(OptionAnd(b.ret, s.ret)),
        panicked |-> s.panicked]

----------------------------------------------------------------------------
(* Inputs *)

Record(p, g) == [pattern |-> p, groups |-> g]

\* every pattern of 1..MaxLen cells (the parser's many1) with every clue list
\* of at most MaxClues clues of 1..MaxClueLen; Report::new also takes the
\* empty clue list
SmallRecords ==
    {Record(p, g) : p \in UNION {[1..n -> Bit] : n \in 1..MaxLen},
                    g \in UNION {[1..c -> 1..MaxClueLen] : c \in 0..MaxClues}}

\* the cases of tests::sample_a_manual: the report and the expected
\* arrangements, in the order of the source
SampleManual == <<
    [report |->
     [pattern |-> <<"I", "O", "I", "O", "O", "I", "I", "I">>,
      groups |-> <<1, 1, 3>>],
     expected_combinations |-> <<
        <<"I", "O", "I", "O", "O", "I", "I", "I">>>>],
    [report |->
     [pattern |-> <<"X", "X", "X", "O", "I", "I", "I">>,
      groups |-> <<1, 1, 3>>],
     expected_combinations |-> <<
        <<"I", "O", "I", "O", "I", "I", "I">>>>],
    [report |->
     [pattern |-> <<"O", "X", "X", "O", "O", "X", "X", "O", "O", "O", "X", "I", "I", "O">>,
      groups |-> <<1, 1, 3>>],
     expected_combinations |-> <<
        <<"O", "I", "O", "O", "O", "I", "O", "O", "O", "O", "I", "I", "I", "O">>,
        <<"O", "O", "I", "O", "O", "I", "O", "O", "O", "O", "I", "I", "I", "O">>,
        <<"O", "I", "O", "O", "O", "O", "I", "O", "O", "O", "I", "I", "I", "O">>,
        <<"O", "O", "I", "O", "O", "O", "I", "O", "O", "O", "I", "I", "I", "O">>>>],
    [report |->
     [pattern |-> <<"X", "I", "X", "I", "X", "I", "X", "I", "X", "I", "X", "I", "X", "I", "X">>,
      groups |-> <<1, 3, 1, 6>>],
     expected_combinations |-> <<
        <<"O", "I", "O", "I", "I", "I", "O", "I", "O", "I", "I", "I", "I", "I", "I">>>>],
    [report |->
     [pattern |-> <<"X", "X", "X", "X", "O", "I", "O", "O", "O", "I", "O", "O", "O">>,
      groups |-> <<4, 1, 1>>],
     expected_combinations |-> <<
        <<"I", "I", "I", "I", "O", "I", "O", "O", "O", "I", "O", "O", "O">>>>],
    [report |->
     [pattern |-> <<"X", "X", "X", "X", "O", "I", "I", "I", "I", "I", "I", "O", "O", "I", "I", "I", "I", "I", "O">>,
      groups |-> <<1, 6, 5>>],
     expected_combinations |-> <<
        <<"I", "O", "O", "O", "O", "I", "I", "I", "I", "I", "I", "O", "O", "I", "I", "I", "I", "I", "O">>,
        <<"O", "I", "O", "O", "O", "I", "I", "I", "I", "I", "I", "O", "O", "I", "I", "I", "I", "I", "O">>,
        <<"O", "O", "I", "O", "O", "I", "I", "I", "I", "I", "I", "O", "O", "I", "I", "I", "I", "I", "O">>,
        <<"O", "O", "O", "I", "O", "I", "I", "I", "I", "I", "I", "O", "O", "I", "I", "I", "I", "I", "O">>>>],
    [report |->
     [pattern |-> <<"X", "I", "I", "I", "X", "X", "X", "X", "X", "X", "X", "X">>,
      groups |-> <<3, 2, 1>>],
     expected_combinations |-> <<
        <<"O", "I", "I", "I", "O", "I", "I", "O", "I", "O", "O", "O">>,
        <<"O", "I", "I", "I", "O", "I", "I", "O", "O", "I", "O", "O">>,
        <<"O", "I", "I", "I", "O", "I", "I", "O", "O", "O", "I", "O">>,
        <<"O", "I", "I", "I", "O", "I", "I", "O", "O", "O", "O", "I">>,
        <<"O", "I", "I", "I", "O", "O", "I", "I", "O", "I", "O", "O">>,
        <<"O", "I", "I", "I", "O", "O", "I", "I", "O", "O", "I", "O">>,
        <<"O", "I", "I", "I", "O", "O", "I", "I", "O", "O", "O", "I">>,
        <<"O", "I", "I", "I", "O", "O", "O", "I", "I", "O", "I", "O">>,
        <<"O", "I", "I", "I", "O", "O", "O", "I", "I", "O", "O", "I">>,
        <<"O", "I", "I", "I", "O", "O", "O", "O", "I", "I", "O", "I">>>>] >>

SampleManualRecords == {SampleManual[c].report : c \in 1..Len(SampleManual)}

\* sample/twelfth.txt, the input of tests::sample_a and the default input of
\* main: the six records of the puzzle text
SampleFile == [c \in 1..(Len(SampleManual) - 1) |-> SampleManual[c + 1].report]

\* the parser `combination` applied to ".{x}." for an expected arrangement x
ExpectedCombination(x) == CombinationFromIter(<< "O" >> \o x \o << "O" >>)

\* lines of an input file of main: the short cases of tests::solve (lines
\* 630-643 of the source) and five lines whose clues do not fit the pattern
InputLines == {
    [pattern |-> <<"I">>, groups |-> <<1>>],
    [pattern |-> <<"X">>, groups |-> <<1>>],
    [pattern |-> <<"X", "X">>, groups |-> <<1>>],
    [pattern |-> <<"I", "X">>, groups |-> <<2>>],
    [pattern |-> <<"X", "I">>, groups |-> <<2>>],
    [pattern |-> <<"I", "X", "O">>, groups |-> <<2>>],
    [pattern |-> <<"O", "I", "X">>, groups |-> <<2>>],
    [pattern |-> <<"I", "X", "X">>, groups |-> <<2>>],
    [pattern |-> <<"O", "I", "I", "O">>, groups |-> <<2>>],
    [pattern |-> <<"X", "X", "I">>, groups |-> <<1, 1>>],
    [pattern |-> <<"I", "X", "I">>, groups |-> <<1, 1>>],
    [pattern |-> <<"X", "O", "X">>, groups |-> <<1, 1>>],
    [pattern |-> <<"I", "X", "I", "X">>, groups |-> <<1, 1>>],
    [pattern |-> <<"O", "I">>, groups |-> <<2>>],
    [pattern |-> <<"I", "I">>, groups |-> <<1>>],
    [pattern |-> <<"I", "O", "O">>, groups |-> <<2>>],
    [pattern |-> <<"X">>, groups |-> <<2>>],
    [pattern |-> <<"X">>, groups |-> <<2, 2>>] }

----------------------------------------------------------------------------
(* The driver: main *)

Parts == {"One", "Two"}

\* sequences of at most n elements of S
SeqUpTo(S, n) == UNION {[1..c -> S] : c \in 0..n}

\* main is started on a file of at most MaxReports lines, or on the sample
\* file, for either part
Init ==
    /\ input \in SeqUpTo(InputLines, MaxReports) \cup {SampleFile}
    /\ part \in Parts
    /\ springs = << >>
    /\ pc = "main"
    /\ idx = 0
    /\ solution = 0
    /\ combinations = {}
    /\ OthersIdle

\* Springs::from_str: one Report::new per line
SpringsFromStr ==
    /\ pc = "main"
    /\ springs' = [j \in 1..Len(input) |-> ReportNew(input[j].pattern, input[j].groups)]
    /\ pc' = "solve"
    /\ idx' = 1
    /\ UNCHANGED <<input, part, solution, combinations, others>>

\* one turn of the while loop of report.solve() for the report the for loop
\* of main is at; the for loop moves on when the condition is None
SolveReport ==
    /\ pc = "solve"
    /\ idx <= Len(springs)
    /\ LET r == solve_condition(springs[idx]) IN
       IF r.panicked
       THEN /\ pc' = "panic"
            /\ UNCHANGED <<springs, idx>>
       ELSE /\ springs' = [springs EXCEPT ![idx] = r.report]
            /\ idx' = IF r.again THEN idx ELSE idx + 1
            /\ pc' = pc
    /\ UNCHANGED <<input, part, solution, combinations, others>>

\* `match args.part`: Part::Two is unimplemented!()
MatchPart ==
    /\ pc = "solve"
    /\ idx > Len(springs)
    /\ pc' = IF part = "One" THEN "count" ELSE "panic"
    /\ idx' = 1
    /\ UNCHANGED <<input, part, springs, solution, combinations, others>>

\* CountReport with a combinations() that drains the clues of the report
\* while it interleaves them
CountReportDraining ==
    /\ pc = "count"
    /\ idx <= Len(springs)
    /\ IF CombinationsOverflows(springs[idx])
       THEN /\ pc' \in {"panic", "hang"}
            /\ UNCHANGED <<solution, idx, springs>>
       ELSE /\ solution' = solution + CombinationsCount(springs[idx])
            /\ springs' = [springs EXCEPT ![idx].clues = << >>]
            /\ idx' = idx + 1
            /\ pc' = pc
    /\ UNCHANGED <<input, part, combinations, others>>

\* one item of `.map(|report| report.combinations().count())` added to the
\* sum; the underflow of k panics or never ends, as the build has it
CountReport ==
    /\ pc = "count"
    /\ idx <= Len(springs)
    /\ IF CombinationsOverflows(springs[idx])
       THEN /\ pc' \in {"panic", "hang"}
            /\ UNCHANGED <<solution, idx>>
       ELSE /\ solution' = solution + CombinationsCount(springs[idx])
            /\ idx' = idx + 1
            /\ pc' = pc
    /\ UNCHANGED <<input, part, springs, combinations, others>>

\* `println!("Solution part ...")`, `Ok(())`
PrintSolution ==
    /\ pc = "count"
    /\ idx > Len(springs)
    /\ pc' = "done"
    /\ UNCHANGED <<input, part, springs, idx, solution, combinations, others>>

Next ==
    \/ SpringsFromStr
    \/ SolveReport
    \/ MatchPart
    \/ CountReport
    \/ PrintSolution

Spec == Init /\ [][Next]_vars

----------------------------------------------------------------------------
(* The tests sample_a_manual and sample_a on one report *)

\* a test is started on a record of the small domain or on a case of
\* tests::sample_a_manual
InitTest ==
    /\ input \in {<< r >> : r \in SmallRecords \cup SampleManualRecords}
    /\ part = "One"
    /\ springs = << >>
    /\ pc = "test"
    /\ idx = 0
    /\ solution = 0
    /\ combinations = {}
    /\ OthersIdle

\* Report::from_str: Report::new on the parsed pattern and groups
ReportFromStr ==
    /\ pc = "test"
    /\ springs' = << ReportNew(input[1].pattern, input[1].groups) >>
    /\ pc' = "collect"
    /\ idx' = 1
    /\ UNCHANGED <<input, part, solution, combinations, others>>

\* `report.combinations().collect::<HashSet<_>>()` of tests::sample_a_manual
\* and `report.combinations().count()` of tests::sample_a
CollectCombinations ==
    /\ pc = "collect"
    /\ IF CombinationsOverflows(springs[1])
       THEN /\ pc' \in {"panic", "hang"}
            /\ UNCHANGED <<solution, combinations>>
       ELSE /\ combinations' = CombinationsSet(springs[1])
            /\ solution' = CombinationsCount(springs[1])
            /\ pc' = "done"
    /\ UNCHANGED <<input, part, springs, idx, others>>

NextTest ==
    \/ ReportFromStr
    \/ CollectCombinations

SpecTest == InitTest /\ [][NextTest]_vars

----------------------------------------------------------------------------
(* What the claims speak of: the arrangements of a record, by definition *)

\* every way to replace each Unknown cell of a pattern by Block or Gap
RECURSIVE Resolutions(_)
Resolutions(p) ==
    IF p = << >> THEN {<< >>}
    ELSE {<< b >> \o r : b \in (IF Head(p) = "X" THEN {"I", "O"} ELSE {Head(p)}),
                         r \in Resolutions(Tail(p))}

\* the lengths of the maximal Block runs of a resolved pattern, left to
\* right; cur is the length of the run the scan is inside
RECURSIVE RunLengthsFrom(_, _)
RunLengthsFrom(s, cur) ==
    LET closed == IF cur > 0 THEN << cur >> ELSE << >> IN
    IF s = << >> THEN closed
    ELSE IF Head(s) = "I" THEN RunLengthsFrom(Tail(s), cur + 1)
    ELSE closed \o RunLengthsFrom(Tail(s), 0)

RunLengths(s) == RunLengthsFrom(s, 0)

\* the arrangements of a record: the resolutions whose runs are the clues
Arrangements(r) == {a \in Resolutions(r.pattern) : RunLengths(a) = r.groups}

\* the test or the driver has come to an end, one way or another
Finished == pc \in {"done", "panic", "hang"}

\* the record a test is run on
TestRecord == input[1]

----------------------------------------------------------------------------
(* Claims about Report::combinations, under SpecTest *)

\* C1: the count returned for a record is the number of its arrangements,
\* and every arrangement is produced exactly once.  Stated as: whenever the
\* test has ended it has ended normally, with the count and the collected
\* set equal to the arrangements (between the two Gap sentinels).
C1_CountIsNumberOfArrangements ==
    Finished =>
        /\ pc = "done"
        /\ solution = Cardinality(Arrangements(TestRecord))
        /\ combinations = {ExpectedCombination(a) : a \in Arrangements(TestRecord)}

\* C2: for a pattern without Unknown cells the count is 1 when the run
\* lengths of the pattern are the clue list and 0 otherwise.
C2_NoUnknownsCountIsOneOrZero ==
    (Finished /\ \A i \in 1..Len(TestRecord.pattern) : TestRecord.pattern[i] # "X") =>
        /\ pc = "done"
        /\ solution = IF RunLengths(TestRecord.pattern) = TestRecord.groups THEN 1 ELSE 0

\* C3: the count is never negative, and it is 0 exactly when no resolution
\* of the Unknown cells satisfies the clue list.
C3_ZeroIffNoArrangement ==
    Finished =>
        /\ pc = "done"
        /\ solution >= 0
        /\ (solution = 0) <=> (Arrangements(TestRecord) = {})

\* C4: processing a record never panics nor fails: a record no resolution can
\* satisfy yields the count 0.
C4_UnsatisfiableCountsZero ==
    (Finished /\ Arrangements(TestRecord) = {}) => (pc = "done" /\ solution = 0)

\* C5: with an empty clue list the count is 1 when the pattern has no Block
\* cell and 0 when it has one.
C5_EmptyClueList ==
    (Finished /\ TestRecord.groups = << >>) =>
        /\ pc = "done"
        /\ solution = IF \E i \in 1..Len(TestRecord.pattern) : TestRecord.pattern[i] = "I"
                      THEN 0 ELSE 1

\* the counts of the seven cases, as the specification lists them
SampleManualCounts == << 1, 1, 4, 1, 1, 4, 10 >>

\* C6: the seven concrete records give the counts 1, 1, 4, 1, 1, 4, 10 and
\* the set of arrangements enumerated for each is the set listed in
\* tests::sample_a_manual.
C6_SampleManual ==
    \A c \in 1..Len(SampleManual) :
        (Finished /\ TestRecord = SampleManual[c].report) =>
            /\ pc = "done"
            /\ solution = SampleManualCounts[c]
            /\ Cardinality(combinations) = Len(SampleManual[c].expected_combinations)
            /\ combinations =
                   {ExpectedCombination(SampleManual[c].expected_combinations[e]) :
                        e \in 1..Len(SampleManual[c].expected_combinations)}

\* witness of C6: the test has collected the ten arrangements of
\* "?###???????? 3,2,1"
C6_Witness ==
    /\ pc = "done"
    /\ TestRecord = SampleManual[7].report
    /\ solution = 10
    /\ Cardinality(combinations) = 10

----------------------------------------------------------------------------
(* Claims about the driver main, under Spec *)

\* the number of arrangements of every record of the input, summed
SumOfCounts(records) ==
    SumSeq([j \in 1..Len(records) |-> Cardinality(Arrangements(records[j]))])

\* C7: the total of the driver is the sum of count(r) over the records (so it
\* depends neither on their order nor, for one record, on the records before
\* it); for the six-record sample it is 21.
C7_TotalIsSumOfCounts ==
    pc = "done" =>
        /\ solution = SumOfCounts(input)
        /\ input = SampleFile => solution = 21

\* unfold(record, k) of the specification: k copies of the pattern joined by
\* one Unknown cell, k copies of the clue list
RECURSIVE Unfold(_, _)
Unfold(r, k) ==
    IF k <= 1 THEN r
    ELSE LET rest == Unfold(r, k - 1) IN
         Record(r.pattern \o << "X" >> \o rest.pattern, r.groups \o rest.groups)

\* C9: Part Two counts unfold(record, 5) for every record: a run of main for
\* Part Two ends normally, with the sum of the counts of the unfolded records.
C9_PartTwoCountsUnfolded ==
    (part = "Two" /\ Finished) =>
        /\ pc = "done"
        /\ solution = SumOfCounts([j \in 1..Len(input) |-> Unfold(input[j], 5)])

\* C10 as claimed: after the driver has processed and counted the records,
\* the pattern and the clue list of each are the same as before.
C10_RecordUnchanged ==
    pc = "done" =>
        \A j \in 1..Len(input) :
            /\ ReportPattern(springs[j]) = input[j].pattern
            /\ ClueLens(springs[j]) = input[j].groups

\* C10 as amended: counting is read-only, a step of the counting loop leaves
\* every report as it is, and no step of the driver changes the number of
\* reports or a clue length; the solve pass before the counting may rewrite
\* the cells of a pattern.
C10_CountingIsReadOnly ==
    [][/\ pc = "count" => springs' = springs
       /\ springs' # << >> =>
              /\ Len(springs') = Len(input)
              /\ \A j \in 1..Len(input) : ClueLens(springs'[j]) = input[j].groups]_vars

\* witness of C10: main has counted (a positive total) reports of which one
\* no longer has the pattern that was parsed
C10_Witness ==
    /\ pc = "done"
    /\ solution > 0
    /\ \E j \in 1..Len(input) : ReportPattern(springs[j]) # input[j].pattern

----------------------------------------------------------------------------
(* Pattern::combinations and the test pattern_combinations *)

\* PatternOptions with the arm of Bit::X collecting `once(Bit::I)`
PatternOptionsBlockOnly(c) ==
    CombinationIter(CombinationFromIter(IF c = "O" THEN << "O" >> ELSE << "I" >>))

\* the Combination a cell is mapped to, as the multi_cartesian_product
\* iterates it: I, O, or I then O for an X
PatternOptions(c) ==
    CombinationIter(CombinationFromIter(
        IF c = "I" THEN << "I" >> ELSE IF c = "O" THEN << "O" >> ELSE << "I", "O" >>))

\* multi_cartesian_product: one choice of a position in the options of every
\* cell; every choice is one item of the iterator
RECURSIVE PatternPicks(_)
PatternPicks(p) ==
    IF p = << >> THEN {<< >>}
    ELSE {<< i >> \o r : i \in 1..Len(PatternOptions(Head(p))), r \in PatternPicks(Tail(p))}

\* the bits of an item
PatternItem(p, pick) == [i \in 1..Len(p) |-> PatternOptions(p[i])[pick[i]]]

\* `1 << len` shifts a u32 by 32 or more when a Bit::I is collected at index
\* 32 or beyond: a panic with overflow checks, the shift amount taken modulo
\* 32 (as CombinationFromIter has it) without
ShiftOverflows(bits) == \E j \in 1..Len(bits) : bits[j] = "I" /\ j - 1 >= ShiftMask

\* Pattern::combinations().collect::<HashSet<_>>()
PatternCombinations(p) ==
    {CombinationFromIter(PatternItem(p, pick)) : pick \in PatternPicks(p)}

\* a pattern of 33 cells, one more than a u32 has bits: "?", 31 times ".", "?"
LongPattern == [i \in 1..(ShiftMask + 1) |-> IF i \in {1, ShiftMask + 1} THEN "X" ELSE "O"]

\* the cases of tests::pattern_combinations
PatternCases ==
    { << "O", "O", "O" >>, << "O" >>, << "I" >>, << "X" >>, << "O", "X", "X", "O" >> }

\* the test is started on a pattern of at most MaxLen cells, on a case of the
\* source or on the long pattern
InitPattern ==
    /\ input \in {<< p >> : p \in UNION {[1..n -> Bit] : n \in 1..MaxLen}
                                \cup PatternCases \cup {LongPattern}}
    /\ part = "One"
    /\ springs = << >>
    /\ pc = "pattern"
    /\ idx = 0
    /\ solution = 0
    /\ combinations = {}
    /\ OthersIdle

\* tests::pattern_combinations: the HashSet of pattern.combinations(), and the
\* number of items the iterator yields
pattern_combinations ==
    /\ pc = "pattern"
    /\ \/ /\ \E pick \in PatternPicks(input[1]) : ShiftOverflows(PatternItem(input[1], pick))
          /\ pc' = "panic"
          /\ UNCHANGED <<solution, combinations>>
       \/ /\ combinations' = PatternCombinations(input[1])
          /\ solution' = Cardinality(PatternPicks(input[1]))
          /\ pc' = "done"
    /\ UNCHANGED <<input, part, springs, idx, others>>

NextPattern == pattern_combinations

SpecPattern == InitPattern /\ [][NextPattern]_vars

\* the number of Unknown cells of a pattern
Unknowns(p) == Cardinality({i \in 1..Len(p) : p[i] = "X"})

----------------------------------------------------------------------------
(* Further claims about Report::combinations, under SpecTest *)

\* C12: counting a record terminates: the enumeration of combinations never
\* gets into a run without end.
C12_CountingTerminates == pc # "hang"

\* the count by brute force: the combinations of the pattern (Pattern::
\* combinations) whose run lengths are the clue list
BruteForceCount(r) ==
    Cardinality({c \in PatternCombinations(r.pattern) :
                     RunLengths(CombinationIter(c)) = r.groups})

\* C19: for every small record the count of the counter equals the count by
\* brute-force enumeration of the 2^u resolutions.
C19_CounterEqualsBruteForce ==
    Finished => (pc = "done" /\ solution = BruteForceCount(TestRecord))

----------------------------------------------------------------------------
(* The arrangement counter of the specification (4.1): the recursion over   *)
(* (cell, clue_state, remaining_cells, remaining_clues).  The cell and the  *)
(* clue state are Options; a clue state is Pending(n) or InProgress(n).     *)

Pending(n) == [phase |-> "Pending", n |-> n]
InProgress(n) == [phase |-> "InProgress", n |-> n]

\* the front element of a sequence popped off, as an Option, and the rest
PopFront(q) ==
    IF q = << >> THEN [front |-> None, rest |-> << >>]
    ELSE [front |-> Some(Head(q)), rest |-> Tail(q)]

\* the arguments of one call
Call(cell, clue_state, cells, clues) ==
    [cell |-> cell, clue_state |-> clue_state, cells |-> cells, clues |-> clues]

\* the next cell popped, the clue state as given
NextCell(c, clue_state) ==
    Call(PopFront(c.cells).front, clue_state, PopFront(c.cells).rest, c.clues)

Return(n) == [returns |-> Some(n), calls |-> << >>]
Recurse(calls) == [returns |-> None, calls |-> calls]

\* CaseTable with the row (Block, Pending) consuming the cell as it starts
\* the run: the next cell under InProgress(len)
CaseTableAdvancing(c) ==
    LET cell == c.cell
        st == c.clue_state
    IN IF cell = None THEN (IF st = None THEN Return(1) ELSE Return(0))
       ELSE IF cell[1] = "X"
       THEN Recurse(<< Call(Some("I"), st, c.cells, c.clues),
                       Call(Some("O"), st, c.cells, c.clues) >>)
       ELSE IF st = None
       THEN (IF cell[1] = "I" THEN Return(0) ELSE Recurse(<< NextCell(c, st) >>))
       ELSE IF st[1].phase = "Pending"
       THEN (IF cell[1] = "O" THEN Recurse(<< NextCell(c, st) >>)
             ELSE Recurse(<< NextCell(c, Some(InProgress(st[1].n))) >>))
       ELSE IF cell[1] = "O"
       THEN (IF st[1].n = 0
             THEN Recurse(<< Call(PopFront(c.cells).front,
                                  IF c.clues = << >> THEN None
                                  ELSE Some(Pending(Head(c.clues))),
                                  PopFront(c.cells).rest,
                                  PopFront(c.clues).rest) >>)
             ELSE Return(0))
       ELSE (IF st[1].n = 0 THEN Return(0)
             ELSE Recurse(<< NextCell(c, Some(InProgress(st[1].n - 1))) >>))

\* CaseTable with the row (Gap, InProgress(n>0)) closing the run as the row
\* (Gap, InProgress(0)) does
CaseTableClosingEarly(c) ==
    LET cell == c.cell
        st == c.clue_state
    IN IF cell = None THEN (IF st = None THEN Return(1) ELSE Return(0))
       ELSE IF cell[1] = "X"
       THEN Recurse(<< Call(Some("I"), st, c.cells, c.clues),
                       Call(Some("O"), st, c.cells, c.clues) >>)
       ELSE IF st = None
       THEN (IF cell[1] = "I" THEN Return(0) ELSE Recurse(<< NextCell(c, st) >>))
       ELSE IF st[1].phase = "Pending"
       THEN (IF cell[1] = "O" THEN Recurse(<< NextCell(c, st) >>)
             ELSE Recurse(<< Call(cell, Some(InProgress(st[1].n)), c.cells, c.clues) >>))
       ELSE IF cell[1] = "O"
       THEN Recurse(<< Call(PopFront(c.cells).front,
                            IF c.clues = << >> THEN None
                            ELSE Some(Pending(Head(c.clues))),
                            PopFront(c.cells).rest,
                            PopFront(c.clues).rest) >>)
       ELSE (IF st[1].n = 0 THEN Return(0)
             ELSE Recurse(<< NextCell(c, Some(InProgress(st[1].n - 1))) >>))

\* the case table: what a call returns, or the calls whose results it sums
CaseTable(c) ==
    LET cell == c.cell
        st == c.clue_state
    IN IF cell = None THEN (IF st = None THEN Return(1) ELSE Return(0))
       ELSE IF cell[1] = "X"
       THEN Recurse(<< Call(Some("I"), st, c.cells, c.clues),
                       Call(Some("O"), st, c.cells, c.clues) >>)
       ELSE IF st = None
       THEN (IF cell[1] = "I" THEN Return(0) ELSE Recurse(<< NextCell(c, st) >>))
       ELSE IF st[1].phase = "Pending"
       THEN (IF cell[1] = "O" THEN Recurse(<< NextCell(c, st) >>)
             ELSE Recurse(<< Call(cell, Some(InProgress(st[1].n)), c.cells, c.clues) >>))
       ELSE IF cell[1] = "O"
       THEN (IF st[1].n = 0
             THEN Recurse(<< Call(PopFront(c.cells).front,
                                  IF c.clues = << >> THEN None
                                  ELSE Some(Pending(Head(c.clues))),
                                  PopFront(c.cells).rest,
                                  PopFront(c.clues).rest) >>)
             ELSE Return(0))
       ELSE (IF st[1].n = 0 THEN Return(0)
             ELSE Recurse(<< NextCell(c, Some(InProgress(st[1].n - 1))) >>))

\* the first call for a record: the pattern with the Gap sentinel appended,
\* the first cell and the first clue popped off
FirstCall(r) ==
    LET cells == r.pattern \o << "O" >> IN
    Call(PopFront(cells).front,
         IF r.groups = << >> THEN None ELSE Some(Pending(Head(r.groups))),
         PopFront(cells).rest,
         PopFront(r.groups).rest)

\* CountCall following the first of the calls of a row only
RECURSIVE CountCallFirstBranch(_)
CountCallFirstBranch(c) ==
    LET t == CaseTable(c) IN
    IF IsSome(t.returns) THEN t.returns[1]
    ELSE CountCallFirstBranch(t.calls[1])

\* count(record): the result of the recursion
RECURSIVE CountCall(_)
CountCall(c) ==
    LET t == CaseTable(c) IN
    IF IsSome(t.returns) THEN t.returns[1]
    ELSE SumSeq([j \in 1..Len(t.calls) |-> CountCall(t.calls[j])])

Count(r) == CountCall(FirstCall(r))

\* the counter is started on a record of the small domain; `call` holds the
\* call that is being evaluated, the cells consumed on the way to it, as they
\* were resolved, and the value returned once a call returns
InitCounter ==
    /\ input \in {<< r >> : r \in SmallRecords}
    /\ part = "One"
    /\ springs = << >>
    /\ pc = "idle"
    /\ idx = 0
    /\ solution = 0
    /\ combinations = {}
    /\ call = [pc |-> "call", args |-> FirstCall(input[1]), taken |-> << >>,
               returned |-> None]
    /\ almanac = Idle
    /\ tortoise = Idle
    /\ platform = Idle
    /\ contraption = Idle
    /\ hashmap = Idle

\* the cell a call consumes when it recurses into next: a resolved cell is
\* consumed when the number of remaining cells goes down
Consumed(args, next) ==
    IF Len(next.cells) < Len(args.cells) \/ (next.cell = None /\ args.cell # None)
    THEN args.cell ELSE << >>

\* the evaluation enters one of the calls the current call makes
Descend ==
    /\ call.pc = "call"
    /\ CaseTable(call.args).returns = None
    /\ \E j \in 1..Len(CaseTable(call.args).calls) :
           LET next == CaseTable(call.args).calls[j] IN
           call' = [call EXCEPT !.args = next,
                                !.taken = @ \o Consumed(call.args, next)]
    /\ UNCHANGED <<twelfth, almanac, tortoise, platform, contraption, hashmap>>

\* the current call returns a value of the table
ReturnValue ==
    /\ call.pc = "call"
    /\ CaseTable(call.args).returns # None
    /\ call' = [call EXCEPT !.pc = "returned", !.returned = CaseTable(call.args).returns]
    /\ UNCHANGED <<twelfth, almanac, tortoise, platform, contraption, hashmap>>

NextCounter ==
    \/ Descend
    \/ ReturnValue

SpecCounter == InitCounter /\ [][NextCounter]_vars

\* C20: a call with a Block cell under Pending(len) re-enters the same cell
\* under InProgress(len), the cell cursor and the remaining clues as they
\* are, and the cell is then spent as the first of exactly len Block cells:
\* a path that returns 1 has consumed runs of exactly the clue lengths.
C20_BlockPendingReenters ==
    [][/\ (/\ call.pc = "call"
           /\ call.args.cell = Some("I")
           /\ call.args.clue_state # None
           /\ call.args.clue_state[1].phase = "Pending") =>
              /\ call'.pc = "call"
              /\ call'.args = [call.args EXCEPT
                                  !.clue_state = Some(InProgress(call.args.clue_state[1].n))]
              /\ call'.taken = call.taken
       /\ call'.returned = Some(1) =>
              RunLengths(call'.taken) = input[1].groups]_vars

\* witness of C20: the run of a clue of length 2 has been entered on a Block
\* cell that is still the current cell
C20_Witness ==
    /\ call.pc = "call"
    /\ call.args.cell = Some("I")
    /\ call.args.clue_state = Some(InProgress(2))
    /\ call.taken = << >>
    /\ input[1].groups = << 2 >>

\* the number of Block cells at the end of a sequence of cells
RECURSIVE TrailingBlocks(_)
TrailingBlocks(s) ==
    IF s = << >> \/ s[Len(s)] # "I" THEN 0
    ELSE 1 + TrailingBlocks(SubSeq(s, 1, Len(s) - 1))

\* the clue the current clue state of a call stands for
CurrentClue(args) == input[1].groups[Len(input[1].groups) - Len(args.clues)]

\* a call is at the clue state InProgress(n)
AtInProgress(args) ==
    args.clue_state # None /\ args.clue_state[1].phase = "InProgress"

\* C21: a Gap at InProgress(0) consumes the gap and the clue and makes the
\* next clue current, and the run it closes has exactly the length of the clue;
\* a Gap at InProgress(n>0) and a Block at InProgress(0) each return 0.
C21_RunAcceptedAtExactLength ==
    [][(call.pc = "call" /\ AtInProgress(call.args) /\ call.args.cell # None) =>
          LET n == call.args.clue_state[1].n
              cell == call.args.cell[1]
          IN /\ (cell = "O" /\ n = 0) =>
                    /\ call'.pc = "call"
                    /\ call'.taken = Append(call.taken, "O")
                    /\ TrailingBlocks(call.taken) = CurrentClue(call.args)
                    /\ call'.args.cells =
                           (IF call.args.cells = << >> THEN << >> ELSE Tail(call.args.cells))
                    /\ call'.args.cell =
                           (IF call.args.cells = << >> THEN None
                            ELSE Some(Head(call.args.cells)))
                    /\ call'.args.clues =
                           (IF call.args.clues = << >> THEN << >> ELSE Tail(call.args.clues))
                    /\ call'.args.clue_state =
                           (IF call.args.clues = << >> THEN None
                            ELSE Some(Pending(Head(call.args.clues))))
             /\ ((cell = "O" /\ n > 0) \/ (cell = "I" /\ n = 0)) =>
                    /\ call'.pc = "returned"
                    /\ call'.returned = Some(0)]_vars

\* witness of C21: the run of the clue 2 was closed by a gap after two Block
\* cells and the clue 1 has become the current one
C21_Witness ==
    /\ call.pc = "call"
    /\ input[1].groups = << 2, 1 >>
    /\ call.taken = << "I", "I", "O" >>
    /\ call.args.clue_state = Some(Pending(1))
    /\ call.args.clues = << >>

\* a call with its cell treated as the bit b
TreatedAs(args, b) == [args EXCEPT !.cell = Some(b)]

\* C22: the result for an Unknown cell is the sum of the results with the cell
\* treated as Block and as Gap, under the same clue state, remaining cells and
\* clues, and a step from an Unknown cell enters one of the two; no call with
\* another cell makes more than one call.
C22_UnknownSumsBothBranches ==
    /\ [](call.pc = "call" =>
            IF call.args.cell = Some("X")
            THEN CountCall(call.args) =
                     CountCall(TreatedAs(call.args, "I")) + CountCall(TreatedAs(call.args, "O"))
            ELSE Len(CaseTable(call.args).calls) <= 1)
    /\ [][(call.pc = "call" /\ call.args.cell = Some("X")) =>
             /\ call'.pc = "call"
             /\ call'.args \in {TreatedAs(call.args, "I"), TreatedAs(call.args, "O")}
             /\ call'.taken = call.taken]_vars

\* witness of C22: the first cell of "??" with the clue 1 is treated as Gap;
\* the count 2 is the sum of 1 for Block and 1 for Gap
C22_Witness ==
    /\ call.pc = "call"
    /\ input[1] = Record(<< "X", "X" >>, << 1 >>)
    /\ call.args.cell = Some("O")
    /\ Len(call.args.cells) = 2
    /\ CountCall(TreatedAs(call.args, "X")) = 2
    /\ CountCall(call.args) = 1

----------------------------------------------------------------------------
(* Report::solve on one report as tests::solve and main call it, with      *)
(* Report::update_clue_bounds one turn of its for loop at a time, and the  *)
(* count main takes of the report afterwards                               *)

\* update_clue_bounds_iter with a clue that forgets its start when its end is set
update_clue_bounds_iterForgetting(pattern, clues, cur, i) ==
    LET clue == clues[cur]
        len == clue.len
        bit == pattern[i + 1]
        continue(p, c, k) == [pattern |-> p, clues |-> c, cur |-> k, exit |-> "continue"]
        return(p, c) == [pattern |-> p, clues |-> c, cur |-> cur, exit |-> "return"]
        panic == [pattern |-> pattern, clues |-> clues, cur |-> cur, exit |-> "panic"]
    IN IF IsSome(clue.start)
       THEN LET s == clue.start[1] IN
            IF i <= s THEN continue(pattern, clues, cur)
            ELSE IF i <= s + len
            THEN IF bit = "I" THEN continue(pattern, clues, cur)
                 ELSE IF bit = "X"
                 THEN continue([pattern EXCEPT ![i + 1] = "I"], clues, cur)
                 ELSE panic
            ELSE IF i = s + len + 1
            THEN IF bit = "I" THEN panic
                 ELSE LET p2 == IF bit = "X" THEN [pattern EXCEPT ![i + 1] = "O"] ELSE pattern
                          c2 == IF clue.end = None
                                THEN [clues EXCEPT ![cur].end = Some(i), ![cur].start = None]
                                ELSE clues
                      IN IF cur = Len(clues) THEN return(p2, c2)
                         ELSE continue(p2, c2, cur + 1)
            ELSE continue(pattern, clues, cur)
       ELSE IF bit = "X" THEN return(pattern, clues)
            ELSE IF bit = "I"
            THEN IF i = 0 THEN panic   \* `i - 1` on usize
                 ELSE continue(pattern, [clues EXCEPT ![cur].start = Some(i - 1)], cur)
            ELSE continue(pattern, clues, cur)

\* one turn of the for loop of Report::update_clue_bounds, at index i
\* (0-based) with clue number cur current: the pattern and the clues after
\* the turn, the current clue after it, and how the turn leaves the loop
update_clue_bounds_iter(pattern, clues, cur, i) ==
    LET clue == clues[cur]
        len == clue.len
        bit == pattern[i + 1]
        continue(p, c, k) == [pattern |-> p, clues |-> c, cur |-> k, exit |-> "continue"]
        return(p, c) == [pattern |-> p, clues |-> c, cur |-> cur, exit |-> "return"]
        panic == [pattern |-> pattern, clues |-> clues, cur |-> cur, exit |-> "panic"]
    IN IF IsSome(clue.start)
       THEN LET s == clue.start[1] IN
            IF i <= s THEN continue(pattern, clues, cur)
            ELSE IF i <= s + len
            THEN IF bit = "I" THEN continue(pattern, clues, cur)
                 ELSE IF bit = "X"
                 THEN continue([pattern EXCEPT ![i + 1] = "I"], clues, cur)
                 ELSE panic
            ELSE IF i = s + len + 1
            THEN IF bit = "I" THEN panic
                 ELSE LET p2 == IF bit = "X" THEN [pattern EXCEPT ![i + 1] = "O"] ELSE pattern
                          c2 == IF clue.end = None
                                THEN [clues EXCEPT ![cur].end = Some(i)] ELSE clues
                      IN IF cur = Len(clues) THEN return(p2, c2)
                         ELSE continue(p2, c2, cur + 1)
            ELSE continue(pattern, clues, cur)
       ELSE IF bit = "X" THEN return(pattern, clues)
            ELSE IF bit = "I"
            THEN IF i = 0 THEN panic   \* `i - 1` on usize
                 ELSE continue(pattern, [clues EXCEPT ![cur].start = Some(i - 1)], cur)
            ELSE continue(pattern, clues, cur)

\* the for loop of Report::update_clue_bounds is at index i with clue
\* number cur current
InLoop(cur, i) == [pc |-> "for", current_clue |-> cur, i |-> i]

\* solve is about to be run on a record of the small domain
InitSolve ==
    /\ input \in {<< r >> : r \in SmallRecords}
    /\ part = "One"
    /\ springs = << >>
    /\ pc = "from_str"
    /\ idx = 0
    /\ solution = 0
    /\ combinations = {}
    /\ OthersIdle

\* `Report::from_str(input)`: Report::new on the parsed pattern and groups
SolveFromStr ==
    /\ pc = "from_str"
    /\ springs' = << ReportNew(input[1].pattern, input[1].groups) >>
    /\ pc' = "solve"
    /\ idx' = 1
    /\ UNCHANGED <<input, part, solution, combinations, others>>

\* report.solve() up to the for loop of update_clue_bounds:
\* solve_simple_boxes, then `clues.next()?` of update_clue_bounds.  The
\* condition of the while loop is None whatever solve_simple_boxes returned,
\* because solve_simple_spaces returns None on every path.
SimpleBoxes ==
    /\ pc = "solve"
    /\ call = Idle
    /\ LET b == solve_simple_boxes(springs[1]) IN
       /\ springs' = << b.report >>
       /\ IF b.report.clues = << >>
          THEN pc' = "solved" /\ call' = call
          ELSE pc' = pc /\ call' = InLoop(1, 0)
    /\ UNCHANGED <<input, part, idx, solution, combinations,
                   almanac, tortoise, platform, contraption, hashmap>>

\* one turn of the for loop of update_clue_bounds, or its end when the
\* pattern is exhausted
ClueBoundsTurn ==
    /\ pc = "solve"
    /\ call # Idle
    /\ IF call.i >= Len(springs[1].pattern)
       THEN /\ pc' = "solved"
            /\ UNCHANGED <<springs, call>>
       ELSE LET t == update_clue_bounds_iter(springs[1].pattern, springs[1].clues,
                                             call.current_clue, call.i)
            IN /\ springs' = << [springs[1] EXCEPT !.pattern = t.pattern,
                                                     !.clues = t.clues] >>
               /\ call' = InLoop(t.cur, call.i + 1)
               /\ pc' = CASE t.exit = "continue" -> pc
                          [] t.exit = "return" -> "solved"
                          [] t.exit = "panic" -> "panic"
    /\ UNCHANGED <<input, part, idx, solution, combinations,
                   almanac, tortoise, platform, contraption, hashmap>>

\* `report.combinations().count()` on the report as solve left it, as main
\* counts it
CountSolved ==
    /\ pc = "solved"
    /\ IF CombinationsOverflows(springs[1])
       THEN /\ pc' \in {"panic", "hang"}
            /\ UNCHANGED solution
       ELSE /\ solution' = CombinationsCount(springs[1])
            /\ pc' = "done"
    /\ UNCHANGED <<input, part, springs, idx, combinations, others>>

NextSolve ==
    \/ SolveFromStr
    \/ SimpleBoxes
    \/ ClueBoundsTurn
    \/ CountSolved

SpecSolve == InitSolve /\ [][NextSolve]_vars

\* the report as Report::new made it from the record the test is run on
Parsed == ReportNew(input[1].pattern, input[1].groups)

\* the turns of update_clue_bounds add up to solve_condition: when solve has
\* returned the report is the one solve_condition gives, and solve panics
\* where solve_condition does
TurnsAreSolveCondition ==
    /\ (pc = "solved" => /\ ~solve_condition(Parsed).panicked
                         /\ springs[1] = solve_condition(Parsed).report)
    /\ (pc = "panic" => \/ solve_condition(Parsed).panicked
                        \/ CombinationsOverflows(solve_condition(Parsed).report))

\* the turn of the for loop of update_clue_bounds that is about to be taken
NextTurn ==
    update_clue_bounds_iter(springs[1].pattern, springs[1].clues,
                            call.current_clue, call.i)

\* update_clue_bounds is about to take a turn of its for loop
TurnPending == pc = "solve" /\ call # Idle /\ call.i < Len(springs[1].pattern)

\* C23: every combination of the current cell and the state of the current
\* clue is handled by a case that goes on or returns: no record of Block, Gap
\* and Unknown cells with positive clues leads to a panic path.
C23_EveryCombinationHandled == TurnPending => NextTurn.exit # "panic"

\* the clues of the report solve is run on, once Report::new has made it
Clues == IF springs = << >> THEN << >> ELSE springs[1].clues

\* C24: the progress of a clue only moves forward: a start that is Some is
\* never reset to None nor changed, an end that is Some is never reset nor
\* changed, and no clue has an end while its start is None.
C24_ClueProgressIsMonotone ==
    [][\A j \in 1..Len(Clues) :
          /\ Len(Clues') = Len(Clues)
          /\ Clues'[j].len = Clues[j].len
          /\ IsSome(Clues[j].start) => Clues'[j].start = Clues[j].start
          /\ IsSome(Clues[j].end) => Clues'[j].end = Clues[j].end
          /\ IsSome(Clues'[j].end) => IsSome(Clues'[j].start)]_vars

\* '#.# 1,1': the first clue has its start and its end, the second clue has
\* its start, and the loop has one more turn to take
C24_Witness ==
    /\ TurnPending
    /\ input[1] = Record(<< "I", "O", "I" >>, << 1, 1 >>)
    /\ Clues[1].start = Some(0) /\ Clues[1].end = Some(2)
    /\ Clues[2].start = Some(2) /\ Clues[2].end = None
    /\ call = InLoop(2, 4)

\* C25: the Gap sentinels are added by Report::new, not by the caller: the
\* stored pattern is the parsed pattern between two Gap cells and
\* Report::pattern() gives the parsed pattern back; an arrangement whose last
\* run ends on the last cell of the pattern is counted like any other
\* ('#' with the clue 1 counts 1).
C25_SentinelsAddedAtConstruction ==
    /\ pc # "test" =>
          /\ springs[1].pattern = << "O" >> \o TestRecord.pattern \o << "O" >>
          /\ ReportPattern(springs[1]) = TestRecord.pattern
    /\ Finished =>
          \A a \in Arrangements(TestRecord) :
              a[Len(a)] = "I" => /\ pc = "done"
                                 /\ ExpectedCombination(a) \in combinations
    /\ (Finished /\ TestRecord = Record(<< "I" >>, << 1 >>)) => solution = 1

\* '?# 2' has been counted: its one arrangement ends on the last cell
C25_Witness ==
    /\ pc = "done"
    /\ TestRecord = Record(<< "X", "I" >>, << 2 >>)
    /\ ReportPattern(springs[1]) = << "X", "I" >>
    /\ combinations = {ExpectedCombination(<< "I", "I" >>)}
    /\ solution = 1

\* the pattern Report::pattern() gives once solve has returned
Solved == ReportPattern(springs[1])

\* C26: solve only resolves forced cells: once it has returned, every cell
\* that was Block or Gap is as it was, and every cell that was Unknown and
\* is Block or Gap now has the value it has in every arrangement of the
\* record.
C26_SolveResolvesForcedCells ==
    pc = "solved" =>
        /\ Len(Solved) = Len(TestRecord.pattern)
        /\ \A i \in 1..Len(TestRecord.pattern) :
              IF TestRecord.pattern[i] # "X"
              THEN Solved[i] = TestRecord.pattern[i]
              ELSE Solved[i] # "X" =>
                       \A a \in Arrangements(TestRecord) : a[i] = Solved[i]

\* the count of each line of the input on the report as Report::new made it
CountsAsParsed ==
    [j \in 1..Len(input) |->
        CombinationsCount(ReportNew(input[j].pattern, input[j].groups))]

\* C27: running solve on a report before counting does not change the
\* answer: when main comes to count, combinations().count() of every report
\* is what it was on the report as parsed, and the solution main prints is
\* the sum of the counts of the reports as parsed.
C27_SolveKeepsCount ==
    /\ pc = "count" =>
          \A j \in 1..Len(springs) :
              ~CombinationsOverflows(ReportNew(input[j].pattern, input[j].groups))
                 => /\ ~CombinationsOverflows(springs[j])
                    /\ CombinationsCount(springs[j]) = CountsAsParsed[j]
    /\ pc = "done" => solution = SumSeq(CountsAsParsed)

\* C28: through Report::new and solve the stored pattern has the length of
\* the parsed pattern plus two and a Gap as its first and as its last cell,
\* so Report::pattern() has the length of the parsed pattern.
C28_StoredPatternKeepsItsFrame ==
    springs # << >> =>
        /\ Len(springs[1].pattern) = Len(TestRecord.pattern) + 2
        /\ springs[1].pattern[1] = "O"
        /\ springs[1].pattern[Len(springs[1].pattern)] = "O"
        /\ Len(ReportPattern(springs[1])) = Len(TestRecord.pattern)

----------------------------------------------------------------------------
(* fifth: Almanac::best_location, propagate and propagate_once *)

\* the largest start of a seed range and of a mapping of the inputs
MaxSeed == 3

Range(a, b) == [start |-> a, end |-> b]

MappingNew(range, offset) == [range |-> range, offset |-> offset]

MappingLen(t) == t.range.end - t.range.start

\* i128::MAX, as the largest integer of the checker: every value of the
\* inputs is far below either
I128Max == 2147483647

takeover == MappingNew(Range(0, I128Max), 0)

\* all::<Resource>().filter(|r| *r != Resource::Seed), in order
Resources ==
    << "Soil", "Fertilizer", "Water", "Light", "Temperature", "Humidity", "Location" >>

\* parse_mapping: a line "dest src len"
parse_mapping(dest, src, len) == MappingNew(Range(src, src + len), dest - src)

\* the body of the loop of propagate_once for one range: what it pushes to
\* olds and to news
PropagateRange(range, t) ==
    IF range.end <= t.range.start THEN [olds |-> << range >>, news |-> << >>]
    ELSE IF t.range.end <= range.start THEN [olds |-> << range >>, news |-> << >>]
    ELSE IF t.range.start < range.start /\ t.range.end < range.end
    THEN [olds |-> << Range(t.range.end, range.end) >>,
          news |-> << Range(range.start + t.offset, t.range.end + t.offset) >>]
    ELSE IF range.start < t.range.start /\ range.end < t.range.end
    THEN [olds |-> << Range(range.start, t.range.start) >>,
          news |-> << Range(t.range.start + t.offset, range.end + t.offset) >>]
    ELSE IF (range.end - range.start) < MappingLen(t)
    THEN [olds |-> << >>,
          news |-> << Range(range.start + t.offset, range.end + t.offset) >>]
    ELSE [olds |-> << Range(range.start, t.range.start), Range(t.range.end, range.end) >>,
          news |-> << Range(t.range.start + t.offset, t.range.end + t.offset) >>]

propagate_once(ranges, t) ==
    [olds |-> Flatten([i \in 1..Len(ranges) |-> PropagateRange(ranges[i], t).olds]),
     news |-> Flatten([i \in 1..Len(ranges) |-> PropagateRange(ranges[i], t).news])]

\* the non-empty ranges with bounds in 0..MaxSeed + 1
SmallRanges == {Range(a, b) : a \in 0..MaxSeed, b \in 1..(MaxSeed + 1)} \cap
               {r \in [start : 0..MaxSeed, end : 1..(MaxSeed + 1)] : r.start < r.end}

\* the seed ranges of the inputs: no range, or one non-empty range
SeedLists == {<< >>} \cup {<< r >> : r \in SmallRanges}

\* a mapping away from every value of the inputs, the line "100 100 1"
FarMapping == parse_mapping(100, 100, 1)

\* the mappings of a stage of the inputs: one line "dest src len"
SmallMappings ==
    {<< parse_mapping(dest, r.start, r.end - r.start) >> : dest \in 0..MaxSeed, r \in SmallRanges}

\* the almanacs of the inputs: a map of every resource but Seed to its
\* mappings, those to Soil and to Fertilizer drawn from SmallMappings
Almanacs ==
    {[r \in 1..Len(Resources) |->
         IF r = 1 THEN a ELSE IF r = 2 THEN b ELSE << FarMapping >>] :
        a \in SmallMappings, b \in SmallMappings}

\* best_location is called on an almanac and seed ranges
InitAlmanac ==
    /\ TwelfthIdle
    /\ call = Idle
    /\ \E a \in Almanacs, seeds \in SeedLists :
           almanac = [pc |-> "propagate", mappings |-> a, seeds |-> seeds,
                      resource |-> 1, t |-> 1, ranges |-> seeds, news |-> << >>,
                      location |-> None]
    /\ tortoise = Idle
    /\ platform = Idle
    /\ contraption = Idle
    /\ hashmap = Idle

\* ts.iter().chain(once(&Mapping::takeover()))
ChainTakeover(ts) == ts \o << takeover >>

\* propagate, one turn of the flat_map closure: propagate_once on the ranges
\* left over, which become the olds; the news are collected
PropagateOnce ==
    /\ almanac.pc = "propagate"
    /\ almanac.t <= Len(ChainTakeover(almanac.mappings[almanac.resource]))
    /\ LET t == ChainTakeover(almanac.mappings[almanac.resource])[almanac.t]
           on == propagate_once(almanac.ranges, t)
       IN almanac' = [almanac EXCEPT !.ranges = on.olds,
                                     !.news = @ \o on.news,
                                     !.t = @ + 1]
    /\ UNCHANGED <<twelfth, call, tortoise, platform, contraption, hashmap>>

\* propagate returns what was collected; the fold of best_location goes on
\* with the next resource
Fold ==
    /\ almanac.pc = "propagate"
    /\ almanac.t > Len(ChainTakeover(almanac.mappings[almanac.resource]))
    /\ almanac' = [almanac EXCEPT
                      !.ranges = almanac.news,
                      !.news = << >>,
                      !.t = 1,
                      !.resource = IF @ < Len(Resources) THEN @ + 1 ELSE @,
                      !.pc = IF almanac.resource < Len(Resources) THEN "propagate" ELSE "min"]
    /\ UNCHANGED <<twelfth, call, tortoise, platform, contraption, hashmap>>

\* .iter().map(|r| r.start).min()
MinStart(ranges) ==
    CHOOSE m \in {ranges[i].start : i \in 1..Len(ranges)} :
        \A i \in 1..Len(ranges) : m <= ranges[i].start

\* best_location: the minimum of the starts, .expect("Seeds not to be empty")
BestLocation ==
    /\ almanac.pc = "min"
    /\ IF almanac.ranges = << >>
       THEN almanac' = [almanac EXCEPT !.pc = "panic"]
       ELSE almanac' = [almanac EXCEPT !.pc = "done",
                                       !.location = Some(MinStart(almanac.ranges))]
    /\ UNCHANGED <<twelfth, call, tortoise, platform, contraption, hashmap>>

NextAlmanac ==
    \/ PropagateOnce
    \/ Fold
    \/ BestLocation

SpecAlmanac == InitAlmanac /\ [][NextAlmanac]_vars

\* a value passed through the mappings of one stage: the offset of a mapping
\* whose range contains it is applied, any other value is kept
MapValue(v, ts) ==
    IF \E i \in 1..Len(ts) : ts[i].range.start <= v /\ v < ts[i].range.end
    THEN LET i == CHOOSE i \in 1..Len(ts) : ts[i].range.start <= v /\ v < ts[i].range.end
         IN v + ts[i].offset
    ELSE v

\* the location of a seed: the value passed through the stages from r on
RECURSIVE LocationFrom(_, _, _)
LocationFrom(v, a, r) ==
    IF r > Len(a) THEN v ELSE LocationFrom(MapValue(v, a[r]), a, r + 1)

\* the seeds contained in a list of ranges
SeedsOf(seeds) ==
    UNION {seeds[i].start .. (seeds[i].end - 1) : i \in 1..Len(seeds)}

\* the locations of the seeds
Locations(a, seeds) == {LocationFrom(v, a, 1) : v \in SeedsOf(seeds)}

\* C14: for a non-empty list of seed ranges best_location returns the least
\* location of the seeds contained in the ranges, each seed passed through
\* the seven stages.
C14_BestLocationIsMinimum ==
    (almanac.pc \in {"done", "panic"} /\ almanac.seeds # << >>) =>
        /\ almanac.pc = "done"
        /\ almanac.location[1] \in Locations(almanac.mappings, almanac.seeds)
        /\ \A l \in Locations(almanac.mappings, almanac.seeds) : almanac.location[1] <= l

----------------------------------------------------------------------------
(* lib: cycle, the tortoise and the hare *)

\* the longest finite sequence, the longest prefix before a cycle and the
\* longest cycle of the inputs
MaxFinite == 6
MaxMu == 5
MaxLambda == 6

\* the iterators of the inputs: 0, 1, .. n - 1, pairwise distinct, and the
\* infinite sequences 0, 1, .. mu - 1 followed by the cycle mu, .. mu + lambda - 1
Finite(n) == [kind |-> "finite", n |-> n]
Periodic(mu, lambda) == [kind |-> "periodic", mu |-> mu, lambda |-> lambda]

Iterators ==
    {Finite(n) : n \in 0..MaxFinite}
        \cup {Periodic(mu, lambda) : mu \in 0..MaxMu, lambda \in 1..MaxLambda}

\* Iterator::next of a clone that has yielded i items
IterNext(xs, i) ==
    IF xs.kind = "finite"
    THEN (IF i < xs.n THEN Some(i) ELSE None)
    ELSE (IF i < xs.mu THEN Some(i) ELSE Some(xs.mu + ((i - xs.mu) % xs.lambda)))

\* cycle(xs) is entered: tortoise and hare are clones of xs
InitCycle ==
    /\ TwelfthIdle
    /\ call = Idle
    /\ almanac = Idle
    /\ \E xs \in Iterators :
           tortoise = [pc |-> "start", xs |-> xs, tortoise |-> 0, hare |-> 0,
                       mu |-> 0, lambda |-> 0, x_mu |-> None, result |-> None]
    /\ platform = Idle
    /\ contraption = Idle
    /\ hashmap = Idle

\* the `?` of an exhausted iterator: cycle returns None
ReturnNone == [tortoise EXCEPT !.pc = "done", !.result = None]

\* hare.next(), its value dropped
HeadStart ==
    /\ tortoise.pc = "start"
    /\ tortoise' = [tortoise EXCEPT !.pc = "race", !.hare = @ + 1]
    /\ UNCHANGED <<twelfth, call, almanac, platform, contraption, hashmap>>

\* one turn of the first loop: tortoise.next()? != hare.next()?, and the
\* second step of the hare in the body
Race ==
    /\ tortoise.pc = "race"
    /\ LET a == IterNext(tortoise.xs, tortoise.tortoise)
           b == IterNext(tortoise.xs, tortoise.hare)
           c == IterNext(tortoise.xs, tortoise.hare + 1)
       IN tortoise' =
              IF a = None \/ b = None THEN ReturnNone
              ELSE IF a # b
              THEN (IF c = None THEN ReturnNone
                    ELSE [tortoise EXCEPT !.tortoise = @ + 1, !.hare = @ + 2])
              ELSE [tortoise EXCEPT !.pc = "offset", !.tortoise = 0, !.hare = @ + 1,
                                    !.mu = 0]
    /\ UNCHANGED <<twelfth, call, almanac, platform, contraption, hashmap>>

\* one turn of the second loop, the tortoise back at the start
FindMu ==
    /\ tortoise.pc = "offset"
    /\ LET a == IterNext(tortoise.xs, tortoise.tortoise)
           b == IterNext(tortoise.xs, tortoise.hare)
       IN tortoise' =
              IF a = None \/ b = None THEN ReturnNone
              ELSE IF a # b
              THEN [tortoise EXCEPT !.tortoise = @ + 1, !.hare = @ + 1, !.mu = @ + 1]
              ELSE [tortoise EXCEPT !.pc = "nth", !.tortoise = @ + 1, !.hare = @ + 1]
    /\ UNCHANGED <<twelfth, call, almanac, platform, contraption, hashmap>>

\* Nth with `let mut lambda = 0`
NthLambdaZero ==
    /\ tortoise.pc = "nth"
    /\ LET x == IterNext(tortoise.xs, tortoise.mu)
       IN tortoise' =
              IF x = None THEN ReturnNone
              ELSE [tortoise EXCEPT !.pc = "length", !.lambda = 0, !.x_mu = x]
    /\ UNCHANGED <<twelfth, call, almanac, platform, contraption, hashmap>>

\* let mut lambda = 1; let x_mu = xs.nth(mu)?
Nth ==
    /\ tortoise.pc = "nth"
    /\ LET x == IterNext(tortoise.xs, tortoise.mu)
       IN tortoise' =
              IF x = None THEN ReturnNone
              ELSE [tortoise EXCEPT !.pc = "length", !.lambda = 1, !.x_mu = x]
    /\ UNCHANGED <<twelfth, call, almanac, platform, contraption, hashmap>>

\* one turn of the third loop, and Some((mu, lambda)) after it
FindLambda ==
    /\ tortoise.pc = "length"
    /\ LET b == IterNext(tortoise.xs, tortoise.hare)
       IN tortoise' =
              IF b = None THEN ReturnNone
              ELSE IF b # tortoise.x_mu
              THEN [tortoise EXCEPT !.hare = @ + 1, !.lambda = @ + 1]
              ELSE [tortoise EXCEPT !.pc = "done", !.hare = @ + 1,
                                    !.result = Some(<< tortoise.mu, tortoise.lambda >>)]
    /\ UNCHANGED <<twelfth, call, almanac, platform, contraption, hashmap>>

NextCycle ==
    \/ HeadStart
    \/ Race
    \/ FindMu
    \/ Nth
    \/ FindLambda

\* a call of cycle runs on until it returns
SpecCycle == InitCycle /\ [][NextCycle]_vars /\ WF_vars(NextCycle)

\* C15: cycle returns, with Some((mu, lambda)) for an eventually periodic
\* sequence whose first element of the cycle has index mu and whose cycle has
\* length lambda, and with None for a finite sequence of pairwise distinct
\* elements, the empty one included.
C15_CycleFindsMuLambda ==
    /\ [](tortoise.pc = "done" =>
            IF tortoise.xs.kind = "periodic"
            THEN tortoise.result = Some(<< tortoise.xs.mu, tortoise.xs.lambda >>)
            ELSE tortoise.result = None)
    /\ <>(tortoise.pc = "done")

\* witness of C15: the case of the test with a prefix of 5 and a cycle of 6
C15_Witness ==
    /\ tortoise.pc = "done"
    /\ tortoise.xs = Periodic(5, 6)
    /\ tortoise.result = Some(<< 5, 6 >>)

----------------------------------------------------------------------------
(* fourteenth: Platform::tilt *)

\* the most rows, columns and rocks of a platform of the inputs
MaxRows == 3
MaxCols == 3
MaxRocks == 2

\* Coord::new(x, y), and the vector operations tilt uses
Coord(x, y) == << x, y >>
CoordSub(a, b) == << a[1] - b[1], a[2] - b[2] >>
CoordMul(a, i) == << a[1] * i, a[2] * i >>

NORTH == Coord(0, -1)
SOUTH == Coord(0, 1)
EAST == Coord(1, 0)
WEST == Coord(-1, 0)

\* the directions tilt supports
Directions == {NORTH, SOUTH, EAST, WEST}

\* Platform::get: Square outside the platform, the rock of the map inside,
\* Rock::None by default.  The map is held as the coordinates of the Round and
\* of the Square entries.
PlatformGet(p, c) ==
    IF c[1] < 0 \/ p.ncols <= c[1] \/ c[2] < 0 \/ p.nrows <= c[2] THEN "Square"
    ELSE IF c \in p.round THEN "Round"
    ELSE IF c \in p.square THEN "Square"
    ELSE "None"

\* Platform::outer
PlatformOuter(p, dir) == IF dir \in {NORTH, SOUTH} THEN p.ncols ELSE p.nrows

\* -1..=n as a sequence, and reversed
Upwards(n) == [i \in 1..(n + 2) |-> i - 2]
Downwards(n) == [i \in 1..(n + 2) |-> n + 1 - i]

\* Platform::inner_iter
inner_iter(p, dir) ==
    IF dir = NORTH THEN Upwards(p.nrows)
    ELSE IF dir = SOUTH THEN Downwards(p.nrows)
    ELSE IF dir = EAST THEN Downwards(p.ncols)
    ELSE Upwards(p.ncols)

\* Platform::coord
PlatformCoord(dir, outer, inner) ==
    IF dir \in {NORTH, SOUTH} THEN Coord(outer, inner) ELSE Coord(inner, outer)

\* the coordinates of one line, in the order of inner_iter
Line(p, dir, outer) ==
    [i \in 1..Len(inner_iter(p, dir)) |-> PlatformCoord(dir, outer, inner_iter(p, dir)[i])]

\* group_by(is square) and the groups that are not square: the index where
\* each such region starts
RegionStarts(p, line) ==
    {i \in 1..Len(line) :
        /\ PlatformGet(p, line[i]) # "Square"
        /\ (i = 1 \/ PlatformGet(p, line[i - 1]) = "Square")}

\* the indices of the region that starts at i
Region(p, line, i) ==
    {j \in i..Len(line) : \A k \in i..j : PlatformGet(p, line[k]) # "Square"}

\* region.filter(|(_, rock)| rock == &Rock::Round).count()
RoundCount(p, line, i) ==
    Cardinality({j \in Region(p, line, i) : PlatformGet(p, line[j]) = "Round"})

\* TakeFrom with `start + dir * i`
TakeFromAhead(start, dir, n) == {CoordSub(start, CoordMul(dir, 0 - i)) : i \in 0..(n - 1)}

\* (0..).map(move |i| start - dir * i).take(n)
TakeFrom(start, dir, n) == {CoordSub(start, CoordMul(dir, i)) : i \in 0..(n - 1)}

\* new_coords of one turn of the loop over outer
NewCoords(p, dir, outer) ==
    LET line == Line(p, dir, outer) IN
    UNION {TakeFrom(line[i], dir, RoundCount(p, line, i)) : i \in RegionStarts(p, line)}

\* Platform::tilt: the new coordinates of every line, the Round entries
\* removed and the new ones put in (over whatever entry is there)
tilt(p, dir) ==
    LET rocks == UNION {NewCoords(p, dir, outer) : outer \in 0..(PlatformOuter(p, dir) - 1)}
    IN [p EXCEPT !.round = rocks, !.square = @ \ rocks, !.dir = Some(dir)]

\* the cells of a platform
Cells(nrows, ncols) == {Coord(x, y) : x \in 0..(ncols - 1), y \in 0..(nrows - 1)}

\* Platform::from_str: the platforms of up to MaxRows rows and MaxCols columns
\* with up to MaxRocks rocks
Platforms ==
    UNION {
        {[nrows |-> t[1], ncols |-> t[2], round |-> t[3] \ sq, square |-> sq, dir |-> None] :
            sq \in SUBSET t[3]} :
        t \in UNION {
            {<< nr, nc, rocks >> :
                rocks \in {r \in SUBSET Cells(nr, nc) : Cardinality(r) <= MaxRocks}} :
            <<nr, nc>> \in (1..MaxRows) \X (1..MaxCols)}}

InitPlatform ==
    /\ TwelfthIdle
    /\ call = Idle
    /\ almanac = Idle
    /\ tortoise = Idle
    /\ platform \in Platforms
    /\ contraption = Idle
    /\ hashmap = Idle

\* platform.tilt(dir)
Tilt ==
    /\ \E dir \in Directions : platform' = tilt(platform, dir)
    /\ UNCHANGED <<twelfth, call, almanac, tortoise, contraption, hashmap>>

NextPlatform == Tilt

SpecPlatform == InitPlatform /\ [][NextPlatform]_vars

\* the cells a rock at c could roll to along dir or against it: the segment
\* of c between square rocks or walls
RECURSIVE Walk(_, _, _)
Walk(p, c, dir) ==
    IF PlatformGet(p, c) = "Square" THEN {} ELSE {c} \cup Walk(p, CoordSub(c, dir), dir)

Segment(p, c, dir) == Walk(p, c, dir) \cup Walk(p, c, CoordMul(dir, -1))

\* the number of cells of the segment of c that lie nearer to dir than c
Ahead(p, c, dir) == Cardinality(Walk(p, c, CoordMul(dir, -1))) - 1

\* C16: after tilt(dir) the round rocks of every segment between square rocks
\* or walls occupy the cells of the segment nearest to dir, as many as before;
\* square rocks and the dimensions are unchanged.
C16_TiltRollsRocks ==
    [][/\ platform'.nrows = platform.nrows
       /\ platform'.ncols = platform.ncols
       /\ platform'.square = platform.square
       /\ platform'.round \subseteq Cells(platform.nrows, platform.ncols) \ platform.square
       /\ \A c \in Cells(platform.nrows, platform.ncols) \ platform.square :
              LET dir == platform'.dir[1]
                  seg == Segment(platform, c, dir)
              IN /\ Cardinality(seg \cap platform'.round) = Cardinality(seg \cap platform.round)
                 /\ c \in platform'.round <=>
                        Ahead(platform, c, dir) < Cardinality(seg \cap platform.round)]_vars

\* witness of C16: the row "#.O" tilted to the west is "#O."
C16_Witness ==
    /\ platform.dir = Some(WEST)
    /\ platform.nrows = 1
    /\ platform.ncols = 3
    /\ platform.square = {Coord(0, 0)}
    /\ platform.round = {Coord(1, 0)}

----------------------------------------------------------------------------
(* sixteenth: Contraption::set_entry and Contraption::advance *)

\* the largest index of an entry of the inputs
MaxEntry == 1

\* enum Direction, in the order of its variants
DirectionCycle == << "Up", "Right", "Down", "Left" >>

DirectionIndex(d) == CHOOSE i \in 1..Len(DirectionCycle) : DirectionCycle[i] = d

\* Direction::cw: next_cycle
DirectionCw(d) == DirectionCycle[(DirectionIndex(d) % Len(DirectionCycle)) + 1]

\* Direction::ccw: previous_cycle
DirectionCcw(d) ==
    DirectionCycle[((DirectionIndex(d) + Len(DirectionCycle) - 2) % Len(DirectionCycle)) + 1]

\* impl From<Direction> for Coord
CoordFrom(d) ==
    IF d = "Up" THEN Coord(0, -1)
    ELSE IF d = "Down" THEN Coord(0, 1)
    ELSE IF d = "Left" THEN Coord(-1, 0)
    ELSE Coord(1, 0)

CoordAdd(a, b) == << a[1] + b[1], a[2] + b[2] >>

\* Vector2D::abs
CoordAbs(a) == << IF a[1] < 0 THEN 0 - a[1] ELSE a[1], IF a[2] < 0 THEN 0 - a[2] ELSE a[2] >>

\* Ray::new; the stamp is left out, as in the PartialEq of Ray
RayNew(coord, direction) == [coord |-> coord, direction |-> direction]

RayCast(ray) == RayNew(CoordAdd(ray.coord, CoordFrom(ray.direction)), ray.direction)

RayCw(ray) == [ray EXCEPT !.direction = DirectionCw(@)]

RayCcw(ray) == [ray EXCEPT !.direction = DirectionCcw(@)]

\* Ray::is_out_of_bounds
is_out_of_bounds(ray, ncols, nrows) ==
    /\ ray.coord # Coord(0, 0)
    /\ \/ ray.coord[1] < 0
       \/ ncols <= ray.coord[1]
       \/ ray.coord[2] < 0
       \/ nrows <= ray.coord[2]

\* Beam::new; the colour is left out
BeamNew(ray, ncols, nrows) == [latest |-> ray, rays |-> << >>, nrows |-> nrows, ncols |-> ncols]

\* beam.contains(&self.latest) of a slice of rays
Contains(rays, ray) == \E i \in 1..Len(rays) : rays[i] = ray

\* Beam::is_finished, beams the slices of rays it is given
is_finished(beam, beams) ==
    \/ \E i \in 1..Len(beams) : Contains(beams[i], beam.latest)
    \/ is_out_of_bounds(beam.latest, beam.ncols, beam.nrows)

\* cells.get(&coord): an Option of the mirror
CellsGet(cells, coord) == IF coord \in DOMAIN cells THEN Some(cells[coord]) ELSE None

\* Beam::advance: the beam with its latest ray pushed and the next one set,
\* and the Option of a new beam
BeamAdvance(beam, cells) ==
    LET latest == beam.latest
        m == CellsGet(cells, latest.coord)
        horizontal == latest.direction \in {"Right", "Left"}
        split == /\ m # None
                 /\ \/ m[1] = "SplitterUD" /\ horizontal
                    \/ m[1] = "SplitterLR" /\ ~horizontal
        next == IF m = None THEN RayCast(latest)
                ELSE IF m[1] = "Slash"
                THEN (IF horizontal THEN RayCast(RayCcw(latest)) ELSE RayCast(RayCw(latest)))
                ELSE IF m[1] = "Backslash"
                THEN (IF horizontal THEN RayCast(RayCw(latest)) ELSE RayCast(RayCcw(latest)))
                ELSE IF split THEN RayCcw(latest)
                ELSE RayCast(latest)
    IN [new_beam |-> IF split THEN Some(BeamNew(RayCw(latest), beam.ncols, beam.nrows))
                     ELSE None,
        beam |-> [beam EXCEPT !.rays = Append(@, latest), !.latest = next]]

\* Contraption::rays_iter of the beams active and closed
rays_iter(active, closed) == [i \in 1..Len(active \o closed) |-> (active \o closed)[i].rays]

\* the loop of Contraption::advance with n turns to go
RECURSIVE AdvanceLoop(_, _, _, _)
AdvanceLoop(n, active, closed, cells) ==
    IF n = 0 \/ active = << >> THEN [active |-> active, closed |-> closed]
    ELSE LET beam == Head(active)
             rest == Tail(active)
         IN IF is_finished(beam, Append(rays_iter(rest, closed), beam.rays))
            THEN AdvanceLoop(n - 1, rest, Append(closed, beam), cells)
            ELSE LET a == BeamAdvance(beam, cells)
                 IN AdvanceLoop(n - 1, Append(rest \o a.new_beam, a.beam), closed, cells)

\* Contraption::advance
advance(c) ==
    LET l == AdvanceLoop(Len(c.active), c.active, c.closed, c.cells)
    IN [c EXCEPT !.active = l.active, !.closed = l.closed]

Mirrors == {"Slash", "Backslash", "SplitterLR", "SplitterUD"}

\* the sizes of the grids of the inputs, as << nrows, ncols >>; a grid whose
\* first line is empty has no columns
GridShapes ==
    { << 1, 0 >>, << 2, 0 >>, << 1, 1 >>, << 1, 2 >>, << 2, 1 >>, << 2, 2 >>,
      << 1, 3 >>, << 3, 1 >> }

\* the maps of mirrors on a grid: any set of cells, a mirror on each
CellMaps(nrows, ncols) ==
    UNION {[at -> Mirrors] : at \in SUBSET Cells(nrows, ncols)}

\* Contraption::from_str
Contraptions ==
    UNION {{[pc |-> "parsed", cells |-> cells, nrows |-> shape[1], ncols |-> shape[2],
             active |-> << >>, closed |-> << >>] :
             cells \in CellMaps(shape[1], shape[2])} : shape \in GridShapes}

InitContraption ==
    /\ TwelfthIdle
    /\ call = Idle
    /\ almanac = Idle
    /\ tortoise = Idle
    /\ platform = Idle
    /\ contraption \in Contraptions
    /\ hashmap = Idle

\* contraption.set_entry((dir, i)) on the contraption as parsed
SetEntry ==
    /\ contraption.pc = "parsed"
    /\ \E dir \in {"Up", "Right", "Down", "Left"}, i \in 0..MaxEntry :
           /\ contraption.active = << >>
           /\ LET ray == RayNew(CoordMul(CoordAbs(CoordFrom(DirectionCw(dir))), i), dir)
              IN contraption' =
                     [contraption EXCEPT
                         !.pc = "entered",
                         !.active = << BeamNew(ray, contraption.ncols, contraption.nrows) >>]
    /\ UNCHANGED <<twelfth, call, almanac, tortoise, platform, hashmap>>

\* contraption.advance()
Advance ==
    /\ contraption.pc = "entered"
    /\ contraption' = advance(contraption)
    /\ UNCHANGED <<twelfth, call, almanac, tortoise, platform, hashmap>>

NextContraption ==
    \/ SetEntry
    \/ Advance

\* advance is called again and again
SpecContraption ==
    InitContraption /\ [][NextContraption]_vars /\ WF_vars(Advance)

\* Contraption::is_in_equilibrium
is_in_equilibrium(c) == c.active = << >>

\* Contraption::energized_cells
energized_cells(c) ==
    {c.closed[i].rays[j].coord : <<i, j>> \in
        {t \in (1..Len(c.closed)) \X (1..(4 * (c.nrows + 1) * (c.ncols + 1))) :
            t[2] <= Len(c.closed[t[1]].rays)}}

\* the parts of C17
EnergizedInsideGrid ==
    contraption.pc = "entered" =>
        energized_cells(contraption) \subseteq Cells(contraption.nrows, contraption.ncols)

EquilibriumIsStable ==
    (contraption.pc = "entered" /\ is_in_equilibrium(contraption)) =>
        advance(contraption) = contraption

ReachesEquilibrium ==
    (contraption.pc = "entered") ~> (contraption.pc = "entered" /\ is_in_equilibrium(contraption))

\* C17: after set_entry, advance called again and again reaches equilibrium,
\* where the queue of active beams is empty; in equilibrium a further advance
\* changes nothing; every energized cell lies inside the grid.
C17_AdvanceReachesEquilibrium ==
    /\ ReachesEquilibrium
    /\ []EquilibriumIsStable
    /\ []EnergizedInsideGrid

----------------------------------------------------------------------------
(* fifteenth: HashMap::process *)

\* the largest focal length of the inputs
MaxFocal == 2

\* the number of boxes
N == 256

\* HASH::write_u8 on a u8: wrapping_add, then wrapping_mul(17)
write_u8(h, x) == (((h + x) % 256) * 17) % 256

\* hash(s): HASH::default(), write(s.as_bytes()), finish(); a label is the
\* sequence of its bytes
RECURSIVE HashFrom(_, _)
HashFrom(h, bytes) ==
    IF bytes = << >> THEN h ELSE HashFrom(write_u8(h, Head(bytes)), Tail(bytes))

hash(s) == HashFrom(0, s)

\* the labels of the inputs, as bytes: "rn" and "cm" of box 0, "ot" and "ab"
\* of box 3
Labels == { << 114, 110 >>, << 99, 109 >>, << 111, 116 >>, << 97, 98 >> }

Remove == [op |-> "Remove"]
Insert(fl) == [op |-> "Insert", fl |-> fl]

\* the instructions of the inputs
Instructions ==
    {<< label, operation >> :
        label \in Labels, operation \in {Remove} \cup {Insert(fl) : fl \in 1..MaxFocal}}

\* Vec::retain(|lens| lens.0 != label)
Retain(item, label) == SelectSeq(item, LAMBDA lens : lens[1] # label)

\* item.iter_mut().find(|(l, _)| label == *l): the index of the first lens
\* with the label, as an Option
Find(item, label) ==
    IF \E i \in 1..Len(item) : item[i][1] = label
    THEN Some(CHOOSE i \in 1..Len(item) :
                  /\ item[i][1] = label
                  /\ \A j \in 1..(i - 1) : item[j][1] # label)
    ELSE None

\* process with an Insert that takes the lens out and pushes it anew
processReinserting(boxes, instruction) ==
    LET label == instruction[1]
        operation == instruction[2]
        item == boxes[hash(label)]
    IN IF operation.op = "Remove"
       THEN [boxes EXCEPT ![hash(label)] = Retain(item, label)]
       ELSE [boxes EXCEPT ![hash(label)] =
                Append(Retain(item, label), << label, operation.fl >>)]

\* HashMap::process
process(boxes, instruction) ==
    LET label == instruction[1]
        operation == instruction[2]
        item == boxes[hash(label)]
    IN IF operation.op = "Remove"
       THEN [boxes EXCEPT ![hash(label)] = Retain(item, label)]
       ELSE IF Find(item, label) # None
       THEN [boxes EXCEPT ![hash(label)][Find(item, label)[1]][2] = operation.fl]
       ELSE [boxes EXCEPT ![hash(label)] = Append(item, << label, operation.fl >>)]

\* HashMap::focal_power
focal_power(boxes) ==
    SumSeq([b \in 1..N |->
        SumSeq([slot \in 1..Len(boxes[b - 1]) |-> b * slot * boxes[b - 1][slot][2]])])

\* HashMap::default()
InitHashMap ==
    /\ TwelfthIdle
    /\ call = Idle
    /\ almanac = Idle
    /\ tortoise = Idle
    /\ platform = Idle
    /\ contraption = Idle
    /\ hashmap = [pc |-> "ready", boxes |-> [b \in 0..(N - 1) |-> << >>],
                  instruction |-> None]

\* me.process(instruction), for the next instruction of the input
Process ==
    /\ hashmap.pc = "ready"
    /\ \E instruction \in Instructions :
           hashmap' = [hashmap EXCEPT !.boxes = process(@, instruction),
                                      !.instruction = Some(instruction)]
    /\ UNCHANGED <<twelfth, call, almanac, tortoise, platform, contraption>>

NextHashMap == Process

SpecHashMap == InitHashMap /\ [][NextHashMap]_vars

\* the labels of a box, in the order of its lenses
BoxLabels(item) == [i \in 1..Len(item) |-> item[i][1]]

\* every label occurs at most once in the map, and only in box hash(label):
\* every lens is in the box of its label and is the only one of its label there
LabelsUnique ==
    \A b \in 0..(N - 1) : \A i \in 1..Len(hashmap.boxes[b]) :
        /\ hash(hashmap.boxes[b][i][1]) = b
        /\ \A j \in 1..Len(hashmap.boxes[b]) :
               hashmap.boxes[b][j][1] = hashmap.boxes[b][i][1] => j = i

\* what processing the instruction of the step does to the order of a box
KeepsOrder ==
    LET label == hashmap'.instruction[1][1]
        operation == hashmap'.instruction[1][2]
        old == hashmap.boxes[hash(label)]
        new == hashmap'.boxes[hash(label)]
        present == \E i \in 1..Len(old) : old[i][1] = label
    IN /\ \A b \in 0..(N - 1) : b # hash(label) => hashmap'.boxes[b] = hashmap.boxes[b]
       /\ operation.op = "Insert" /\ present =>
              /\ BoxLabels(new) = BoxLabels(old)
              /\ \A i \in 1..Len(old) :
                     new[i][2] = IF old[i][1] = label THEN operation.fl ELSE old[i][2]
       /\ operation.op = "Insert" /\ ~present =>
              /\ Len(new) = Len(old) + 1
              /\ SubSeq(new, 1, Len(old)) = old
              /\ new[Len(new)] = << label, operation.fl >>
       /\ operation.op = "Remove" =>
              /\ \A i \in 1..Len(new) : new[i][1] # label
              /\ Len(new) = Len(old) - (IF present THEN 1 ELSE 0)
              /\ \A i \in 1..Len(new) :
                     new[i] = old[IF \E j \in 1..i : old[j][1] = label THEN i + 1 ELSE i]

====
